---------------------------- MODULE Spec2Model ----------------------------
(***************************************************************************)
(* A model of the retrieval / ranking / generation core of LawScout AI:    *)
(*   rag_system/hybrid_search.py   HybridSearchEngine (BM25, fusion,       *)
(*                                 cross-encoder reranking)                *)
(*   rag_system/rag_engine.py      LegalRAGEngine (search, generate_answer,*)
(*                                 _create_cache_key, ask)                 *)
(*   rag_system/usage_tracker.py   GeminiUsageTracker (the usage ledger)   *)
(*                                                                         *)
(* Four specifications share the module:                                   *)
(*   SpecFusion  hybrid_search and rerank applied to bounded inputs        *)
(*   SpecKey     _create_cache_key applied to a query and its variants     *)
(*   Spec        one caller running ask, request after request, on one     *)
(*               engine, one usage tracker and one clock                   *)
(*   SpecLedger  the executor's worker threads running ask concurrently    *)
(*               against the one usage tracker                             *)
(*                                                                         *)
(* Numbers.  Scores are exact rationals <<num, den>> with den > 0; the     *)
(* pair <<0, 0>> stands for a dictionary key that is absent.  Token counts *)
(* are integers; costs are kept in fortieths of a dollar per million       *)
(* tokens so that 0.075, 0.30 and 5.00 are the integers 3, 12 and 200.     *)
(***************************************************************************)
EXTENDS Integers, Sequences, FiniteSets, TLC

VARIABLES
    \* ---- SpecFusion: one call of hybrid_search / rerank ----------------
    semantic_results,  \* the caller's list of candidates (argument)
    fphase,            \* "input" | "fused" | "reranked"
    alpha,             \* hybrid_search's alpha, in tenths
    top_k,             \* hybrid_search's / rerank's top_k (0: None)
    use_reranking,     \* HybridSearchEngine.use_reranking
    outcome,           \* "none" | "returned" | "ZeroDivisionError"
    fused,             \* the list hybrid_search returned
    documents,         \* rerank's argument, bm25_search's argument
    reranked,          \* the list rerank returned
    \* ---- SpecKey: a query and a variant of it ---------------------------
    query_a,           \* a query string (sequence of characters)
    query_b,           \* a variant of it
    inner_ws,          \* TRUE once whitespace was edited between words
    key_a,             \* _create_cache_key of the first call
    key_b,             \* _create_cache_key of the second call
    \* ---- Spec / SpecLedger: the engine, its tracker and its callers ----
    today,             \* datetime.now().date(), as a day number
    tracker,           \* the global GeminiUsageTracker's counters
    llm,               \* LegalRAGEngine.llm: "configured" | "none"
    query_cache,       \* LegalRAGEngine._query_cache, in insertion order
    analytics,         \* len(LegalRAGEngine.analytics)
    asks,              \* ask calls started so far
    th,                \* per worker thread: position in ask and its locals
    passed,            \* history: what track_usage was called with so far
    ceiling_day,       \* history: last day on which the ledger's daily cost
                       \*          stood at or above the ceiling (0: none)
    \* ---- SpecStream: one streamed answer and its consumer ---------------
    provider,          \* what the provider's stream holds and where it fails
    gen_state,         \* the generator generate_answer returned
    received,          \* the fragments the consumer has got so far
    \* ---- the vector index ----------------------------------------------
    index,             \* per collection: whether its search raises, and
                       \*                 the hits it returns to the queries
    \* ---- SpecCite, SpecCiteSeq: one CitationExtractor --------------------
    cite_text,         \* the text under study, as whitespace-separated tokens
    cite_calls,        \* the calls of extract_citations so far: text and result
    \* ---- SpecLimit: one call of check_cost_limit -------------------------
    limit_result,      \* the (is_allowed, message) pair it returned
    \* ---- the engine's cache: its capacity and its history --------------
    cache_max_size,    \* LegalRAGEngine._cache_max_size
    store_log,         \* history: the keys stored so far, in order (kept
                       \*          where it is switched on)
    \* ---- SpecContext: the context generate_answer assembles ------------
    context,           \* generate_answer's context argument: per candidate the
                       \* lengths of its text, full_text and source label
    context_text       \* the entries appended to context_text

fusionVars == <<semantic_results, fphase, alpha, top_k, use_reranking, outcome, fused,
               documents, reranked>>
keyVars    == <<query_a, query_b, inner_ws, key_a, key_b>>
engineVars == <<today, tracker, llm, query_cache, analytics, asks, th, passed, ceiling_day>>
streamVars == <<provider, gen_state, received>>
indexVars  == <<index>>
citeVars   == <<cite_text, cite_calls>>
limitVars  == <<limit_result>>
cacheVars  == <<cache_max_size, store_log>>
contextVars == <<context, context_text>>
auxVars    == <<streamVars, indexVars, citeVars, limitVars, cacheVars, contextVars>>
vars       == <<fusionVars, keyVars, engineVars, auxVars>>

-----------------------------------------------------------------------------
(***************************************************************************)
(* Bounds of the model.                                                    *)
(***************************************************************************)
MaxDocs == 2        \* longest candidate list handed to hybrid_search / rerank
MaxTopK == 2        \* largest top_k

-----------------------------------------------------------------------------
(***************************************************************************)
(* Rationals.                                                              *)
(***************************************************************************)
Absent == <<0, 0>>
Rat(n) == <<n, 1>>
IsSet(r) == r[2] # 0
RatLess(a, b) == a[1] * b[2] < b[1] * a[2]
RatLeq(a, b)  == a[1] * b[2] <= b[1] * a[2]

RECURSIVE Gcd(_, _)
Gcd(a, b) == IF b = 0 THEN a ELSE Gcd(b, a % b)

\* the fraction n/d (d > 0, n >= 0) in lowest terms
Norm(n, d) == LET g == Gcd(n, d) IN <<n \div g, d \div g>>
RatAdd(a, b) == Norm(a[1] * b[2] + b[1] * a[2], a[2] * b[2])
RatMul(a, b) == Norm(a[1] * b[1], a[2] * b[2])
RatDiv(a, b) == Norm(a[1] * b[2], a[2] * b[1])

RECURSIVE MaxRat(_)
MaxRat(S) ==
    LET x == CHOOSE y \in S : TRUE
    IN  IF S = {x} THEN x
        ELSE LET m == MaxRat(S \ {x}) IN IF RatLess(m, x) THEN x ELSE m

Min2(a, b) == IF a < b THEN a ELSE b

Take(s, n) == SubSeq(s, 1, Min2(n, Len(s)))

\* every sequence that lists each element of S exactly once
Perms(S) ==
    {p \in [1..Cardinality(S) -> S] : \A i, j \in 1..Cardinality(S) : p[i] = p[j] => i = j}

-----------------------------------------------------------------------------
(***************************************************************************)
(* Candidates.  A candidate is a dict; the model keeps the keys the code   *)
(* reads and writes.  `text' is abstracted to the raw score rank_bm25      *)
(* gives that text for the query (BM25Okapi.get_scores, an external        *)
(* library): two candidates with the same `text' value get the same BM25   *)
(* score.  chunk_id = NoId is a dict without the key 'chunk_id'.           *)
(***************************************************************************)
NoId == 0
ChunkIds == {1, 2}
ScoreVals == {0, 1, 2}
TextVals == {0, 2}
RerankVals == {0, 1}
AlphaDen == 10
AlphaVals == {0, 7, 10}

Candidate(id, s, t) ==
    [chunk_id |-> id, score |-> Rat(s), text |-> t,
     semantic_score |-> Absent, bm25_score |-> Absent,
     hybrid_score |-> Absent, rerank_score |-> Absent]

Candidates == {Candidate(id, s, t) : id \in ChunkIds \cup {NoId}, s \in ScoreVals, t \in TextVals}

CandidateLists == UNION {[1..n -> Candidates] : n \in 0..MaxDocs}

\* doc.get('chunk_id', i): the dictionary key of the i-th candidate.  The
\* enumerate index is an int and never equals a chunk id (a string), so the
\* fallback keys are kept apart from ChunkIds as negative numbers.
DictKey(doc, i) == IF doc.chunk_id = NoId THEN 0 - i ELSE doc.chunk_id

\* a dict comprehension {key(doc, i): val(doc) ...}: the later item wins
LastIndex(docs, k) ==
    CHOOSE i \in 1..Len(docs) :
        /\ DictKey(docs[i], i) = k
        /\ \A j \in (i+1)..Len(docs) : DictKey(docs[j], j) # k

DictKeys(docs) == {DictKey(docs[i], i) : i \in 1..Len(docs)}

-----------------------------------------------------------------------------
(***************************************************************************)
(* HybridSearchEngine.bm25_search.  rank_bm25 and numpy are external: the  *)
(* raw scores come with the texts, and numpy's argsort may order equal     *)
(* scores either way, so `ord' is any descending order of the indices.     *)
(***************************************************************************)
BM25Orders(docs) ==
    {p \in Perms(1..Len(docs)) :
        \A i, j \in 1..Len(docs) :
            i < j => docs[p[i]].text >= docs[p[j]].text}

bm25_search(docs, ord, k) ==
    [j \in 1..Min2(k, Len(docs)) |->
        [docs[ord[j]] EXCEPT !.bm25_score = Rat(docs[ord[j]].text)]]

\* list.sort(key=lambda x: x[field], reverse=True): stable, descending
RECURSIVE SortDesc(_, _)
SortDesc(s, field) ==
    IF Len(s) <= 1 THEN s
    ELSE LET init == SortDesc(SubSeq(s, 1, Len(s) - 1), field)
             x    == s[Len(s)]
             \* x goes after every element whose key is >= its own
             pos  == Cardinality({i \in 1..Len(init) : RatLeq(x[field], init[i][field])})
         IN  SubSeq(init, 1, pos) \o <<x>> \o SubSeq(init, pos + 1, Len(init))

(***************************************************************************)
(* HybridSearchEngine.hybrid_search with all_documents = None (the only    *)
(* way the repository calls it).  `ord' is bm25_search's order of the      *)
(* indices, `ids' the order in which Python iterates the set all_doc_ids.  *)
(***************************************************************************)
semantic_scores(docs) ==
    [k \in DictKeys(docs) |-> docs[LastIndex(docs, k)].score]

bm25_scores(bm25_results) ==
    [k \in DictKeys(bm25_results) |-> bm25_results[LastIndex(bm25_results, k)].bm25_score]

\* max(d.values()) if d else 1
MaxOrOne(d) == IF DOMAIN d = {} THEN Rat(1) ELSE MaxRat({d[k] : k \in DOMAIN d})

all_doc_ids(docs, bm25_results) == DictKeys(docs) \cup DictKeys(bm25_results)

\* d.get(k, 0)
GetOrZero(d, k) == IF k \in DOMAIN d THEN d[k] ELSE Rat(0)

\* the first d with d.get('chunk_id', None) == doc_id, semantic results first
HasDoc(docs, doc_id) == \E i \in 1..Len(docs) : docs[i].chunk_id # NoId /\ docs[i].chunk_id = doc_id
FirstDoc(docs, doc_id) ==
    docs[CHOOSE i \in 1..Len(docs) :
            /\ docs[i].chunk_id # NoId /\ docs[i].chunk_id = doc_id
            /\ \A j \in 1..(i-1) : ~(docs[j].chunk_id # NoId /\ docs[j].chunk_id = doc_id)]

LookupDoc(docs, bm25_results, doc_id) ==
    IF HasDoc(docs, doc_id) THEN FirstDoc(docs, doc_id) ELSE FirstDoc(bm25_results, doc_id)

\* mutant of HybridScore: the scores are combined without being normalized
HybridScore_Unnormalized(a, sem, mx_sem, bm, mx_bm) ==
    RatAdd(RatMul(<<a, AlphaDen>>, sem), RatMul(<<AlphaDen - a, AlphaDen>>, bm))

\* alpha * sem_score + (1 - alpha) * bm25_score, alpha in tenths
HybridScore(a, sem, mx_sem, bm, mx_bm) ==
    RatAdd(RatMul(<<a, AlphaDen>>, RatDiv(sem, mx_sem)),
           RatMul(<<AlphaDen - a, AlphaDen>>, RatDiv(bm, mx_bm)))

FuseDoc(doc, a, sem, mx_sem, bm, mx_bm) ==
    LET h == HybridScore(a, sem, mx_sem, bm, mx_bm)
    IN  [doc EXCEPT !.semantic_score = sem, !.bm25_score = bm,
                    !.hybrid_score = h, !.score = h]

\* mutant of FuseLoop: the loop walks the two result lists instead of the set
\* of their ids, and fuses every candidate it meets
FuseLoop_PerCandidate(ids, docs, bm25_results, a, acc) ==
    LET cands == SelectSeq(docs \o bm25_results, LAMBDA d : d.chunk_id # NoId)
        sem == semantic_scores(docs)
        bm  == bm25_scores(bm25_results)
    IN  [i \in 1..Len(cands) |->
            FuseDoc(cands[i], a, GetOrZero(sem, cands[i].chunk_id), MaxOrOne(sem),
                    GetOrZero(bm, cands[i].chunk_id), MaxOrOne(bm))]

\* the body of "for doc_id in all_doc_ids", acc = [seen |-> seen_ids, out |-> hybrid_results]
RECURSIVE FuseLoop(_, _, _, _, _)
FuseLoop(ids, docs, bm25_results, a, acc) ==
    IF ids = <<>> THEN acc.out
    ELSE LET doc_id == Head(ids)
             sem == semantic_scores(docs)
             bm  == bm25_scores(bm25_results)
             found == HasDoc(docs, doc_id) \/ HasDoc(bm25_results, doc_id)
             next == IF doc_id \in acc.seen THEN acc
                     ELSE IF found
                     THEN [seen |-> acc.seen \cup {doc_id},
                           out  |-> Append(acc.out,
                                       FuseDoc(LookupDoc(docs, bm25_results, doc_id), a,
                                               GetOrZero(sem, doc_id), MaxOrOne(sem),
                                               GetOrZero(bm, doc_id), MaxOrOne(bm)))]
                     ELSE [acc EXCEPT !.seen = acc.seen \cup {doc_id}]
         IN  FuseLoop(Tail(ids), docs, bm25_results, a, next)

\* the loop divides by max_semantic and max_bm25 for the first id it finds a
\* candidate for: a zero maximum raises ZeroDivisionError there
Divides(docs, bm25_results) ==
    \E k \in all_doc_ids(docs, bm25_results) : HasDoc(docs, k) \/ HasDoc(bm25_results, k)

ZeroDivides(docs, bm25_results) ==
    /\ Divides(docs, bm25_results)
    /\ \/ MaxOrOne(semantic_scores(docs))[1] = 0
       \/ MaxOrOne(bm25_scores(bm25_results))[1] = 0

hybrid_search(docs, ord, ids, a, k) ==
    LET bm25_results == bm25_search(docs, ord, 2 * k)
    IN  IF ZeroDivides(docs, bm25_results)
        THEN [outcome |-> "ZeroDivisionError", results |-> <<>>]
        ELSE [outcome |-> "returned",
              results |-> Take(SortDesc(FuseLoop(ids, docs, bm25_results, a,
                                                 [seen |-> {}, out |-> <<>>]),
                                        "hybrid_score"), k)]

(***************************************************************************)
(* HybridSearchEngine.rerank.  `scores' is what the cross-encoder predicts *)
(* for the (query, text[:512]) pairs: an external model, any values.       *)
(***************************************************************************)
RerankDoc(doc, sc) == [doc EXCEPT !.rerank_score = Rat(sc), !.score = Rat(sc)]

\* mutant of rerank: the use_reranking flag is not consulted
rerank_IgnoresFlag(enabled, docs, scores, k) ==
    IF docs = <<>> THEN docs
    ELSE LET reranked_docs ==
                 SortDesc([i \in 1..Len(docs) |-> RerankDoc(docs[i], scores[i])], "rerank_score")
         IN  IF k # 0 THEN Take(reranked_docs, k) ELSE reranked_docs

rerank(enabled, docs, scores, k) ==
    IF ~enabled THEN docs
    ELSE IF docs = <<>> THEN docs
    ELSE LET reranked_docs ==
                 SortDesc([i \in 1..Len(docs) |-> RerankDoc(docs[i], scores[i])], "rerank_score")
         IN  IF k # 0 THEN Take(reranked_docs, k) ELSE reranked_docs

(***************************************************************************)
(* What the three functions leave behind in the list the caller passed.    *)
(* The result lists (results, hybrid_results, reranked_docs) are new       *)
(* lists; the keys are written to `doc', the dict that d.copy() returned.  *)
(***************************************************************************)
\* mutant of DocCopy: doc is the caller's dict itself
DocCopy_Alias(d) == "same"

\* documents[idx].copy(), d.copy(), doc.copy() (lines 91, 156, 162, 222):
\* a new dict with the keys of d
DocCopy(d) == "copy"

\* the caller's list after bm25_search (lines 88-95)
InputAfterBm25(docs, ord, k) ==
    [i \in 1..Len(docs) |->
        IF DocCopy(docs[i]) = "same" /\ (\E j \in 1..Min2(k, Len(docs)) : ord[j] = i)
        THEN [docs[i] EXCEPT !.bm25_score = Rat(docs[i].text)]
        ELSE docs[i]]

\* the caller's list after hybrid_search (lines 123, 152-180): the loop
\* writes to the copy of the first candidate that carries the id
InputAfterHybrid(docs, ord, ids, a, k) ==
    LET bm25_results == bm25_search(docs, ord, 2 * k)
        after_bm25 == InputAfterBm25(docs, ord, 2 * k)
        sem == semantic_scores(docs)
        bm  == bm25_scores(bm25_results)
    IN  [i \in 1..Len(docs) |->
                IF /\ DocCopy(docs[i]) = "same"
                   /\ ~ZeroDivides(docs, bm25_results)
                   /\ docs[i].chunk_id # NoId
                   /\ \A j \in 1..(i - 1) : docs[j].chunk_id # docs[i].chunk_id
                THEN FuseDoc(after_bm25[i], a, GetOrZero(sem, docs[i].chunk_id), MaxOrOne(sem),
                             GetOrZero(bm, docs[i].chunk_id), MaxOrOne(bm))
                ELSE after_bm25[i]]

\* the caller's list after rerank (lines 204-225)
InputAfterRerank(enabled, docs, scores, k) ==
    IF ~enabled \/ docs = <<>> THEN docs
    ELSE [i \in 1..Len(docs) |->
            IF DocCopy(docs[i]) = "same" THEN RerankDoc(docs[i], scores[i]) ELSE docs[i]]

-----------------------------------------------------------------------------
(***************************************************************************)
(* LegalRAGEngine._create_cache_key.  A query is a sequence of characters. *)
(* json.dumps(..., sort_keys=True) followed by md5 is modelled as the      *)
(* record of the five fields: equal records give equal digests.            *)
(***************************************************************************)
MaxQueryLen == 3    \* longest query string

Chars == {"a", "A", " "}
IsSpace(c) == c = " "
LowerChar(c) == IF c = "A" THEN "a" ELSE c

\* str.lower()
Lower(q) == [i \in 1..Len(q) |-> LowerChar(q[i])]

\* str.strip(): leading and trailing whitespace removed
RECURSIVE LStrip(_)
LStrip(q) == IF q # <<>> /\ IsSpace(Head(q)) THEN LStrip(Tail(q)) ELSE q
RECURSIVE RStrip(_)
RStrip(q) == IF q # <<>> /\ IsSpace(q[Len(q)]) THEN RStrip(SubSeq(q, 1, Len(q) - 1)) ELSE q
Strip(q) == RStrip(LStrip(q))

\* mutant of _create_cache_key: the query is lowercased but not stripped
create_cache_key_NoStrip(query, collection_type, limit, hybrid, reranking) ==
    [query |-> Lower(query), collection |-> collection_type, limit |-> limit,
     use_hybrid |-> hybrid, use_reranking |-> reranking]

create_cache_key(query, collection_type, limit, hybrid, reranking) ==
    [query |-> Strip(Lower(query)), collection |-> collection_type, limit |-> limit,
     use_hybrid |-> hybrid, use_reranking |-> reranking]

\* no key computed yet
NoKey == [query |-> <<>>, collection |-> "none", limit |-> 0,
          use_hybrid |-> FALSE, use_reranking |-> FALSE]

-----------------------------------------------------------------------------
(***************************************************************************)
(* GeminiUsageTracker.  One tracker is created at start-up (main.py) and   *)
(* shared by every caller through get_usage_tracker().                     *)
(***************************************************************************)
MaxAsks == 3        \* ask calls started in one behaviour
MaxDay == 2         \* last day the clock reaches
CacheMaxSize == 1   \* LegalRAGEngine._cache_max_size, scaled down from 100

INPUT_COST_PER_MILLION == 3       \* 0.075 dollars, in fortieths
OUTPUT_COST_PER_MILLION == 12     \* 0.30 dollars, in fortieths
max_daily_cost == 200             \* 5.00 dollars, in fortieths
TokensPerMillion == 1000000

NewTracker(day) ==
    [daily_input_tokens |-> 0, daily_output_tokens |-> 0, daily_requests |-> 0,
     last_reset_date |-> day,
     total_input_tokens |-> 0, total_output_tokens |-> 0, total_requests |-> 0]

\* get_daily_cost, multiplied through by one million
get_daily_cost(inp, out) == inp * INPUT_COST_PER_MILLION + out * OUTPUT_COST_PER_MILLION

\* daily_cost >= self.max_daily_cost
LimitReached(inp, out) == get_daily_cost(inp, out) >= max_daily_cost * TokensPerMillion

\* a warning threshold that sits at the ceiling itself
LimitNear_AtCeiling(inp, out) == LimitReached(inp, out)

\* daily_cost >= self.max_daily_cost * 0.8
LimitNear(inp, out) == 10 * get_daily_cost(inp, out) >= 8 * max_daily_cost * TokensPerMillion

\* the (is_allowed, message) pair check_cost_limit returns
check_cost_limit(inp, out) ==
    IF LimitReached(inp, out) THEN [is_allowed |-> FALSE, message |-> "exceeded"]
    ELSE IF LimitNear(inp, out) THEN [is_allowed |-> TRUE, message |-> "approaching"]
    ELSE [is_allowed |-> TRUE, message |-> ""]

\* the six statements of track_usage, in program order, and what each adds
Counters == <<"daily_input_tokens", "daily_output_tokens", "daily_requests",
              "total_input_tokens", "total_output_tokens", "total_requests">>

Increment(c, inp, out) ==
    IF c \in {"daily_input_tokens", "total_input_tokens"} THEN inp
    ELSE IF c \in {"daily_output_tokens", "total_output_tokens"} THEN out
    ELSE 1

\* the fields _check_reset_daily assigns, in program order
ResetFields == <<"daily_input_tokens", "daily_output_tokens", "daily_requests",
                 "last_reset_date">>

\* history: the day on which the ledger's own daily cost stands at or above
\* the ceiling (the counters belong to the day in last_reset_date)
NoteCeiling(tr, was) ==
    IF LimitReached(tr.daily_input_tokens, tr.daily_output_tokens)
    THEN tr.last_reset_date ELSE was

(***************************************************************************)
(* LegalRAGEngine: the query cache, a dict in insertion order.             *)
(***************************************************************************)
CacheKeys(c) == {c[i].key : i \in 1..Len(c)}

\* self._query_cache[cache_key] = response: a key already present keeps its
\* position, a new key goes last
CacheSet(c, k, r) ==
    IF k \in CacheKeys(c)
    THEN [i \in 1..Len(c) |-> IF c[i].key = k THEN [key |-> k, response |-> r] ELSE c[i]]
    ELSE Append(c, [key |-> k, response |-> r])

\* self._query_cache.pop(k), for a key that is present
CachePopKey(c, k) == SelectSeq(c, LAMBDA e : e.key # k)

(***************************************************************************)
(* LegalRAGEngine.search.  `hits' is what Qdrant returned over the         *)
(* searched collections (an external index: any list); `ord', `ids' and    *)
(* `scores' are as in hybrid_search and rerank.                            *)
(***************************************************************************)
SearchAlpha == 7

search(hits, lim, use_hyb, use_rr, ord, ids, scores) ==
    IF hits # <<>> /\ (use_hyb \/ use_rr)
    THEN LET h == IF use_hyb THEN hybrid_search(hits, ord, ids, SearchAlpha, lim * 2)
                  ELSE [outcome |-> "returned", results |-> hits]
         IN  IF h.outcome # "returned" THEN h
             ELSE [outcome |-> "returned",
                   results |-> rerank(use_rr, h.results,
                                      SubSeq(scores, 1, Len(h.results)), lim)]
    ELSE [outcome |-> "returned", results |-> Take(SortDesc(hits, "score"), lim)]

(***************************************************************************)
(* LegalRAGEngine.ask: responses.                                          *)
(***************************************************************************)
\* mutant of NoResults: an empty result list is not noticed
NoResults_Never(results) == FALSE

\* `if not results' in ask (line 451)
NoResults(results) == results = <<>>

NoResultsResponse == [answer |-> "no_results", num_sources |-> 0, sources |-> <<>>]

NoResponse == [answer |-> "none", num_sources |-> 0, sources |-> <<>>]

\* the response dict ask builds: the answer, len(results), results[:5]
Response(answer, results) ==
    [answer |-> answer, num_sources |-> Len(results), sources |-> Take(results, 5)]

(***************************************************************************)
(* The callers.  routes.py runs ask on a pool of worker threads; a worker  *)
(* is idle or somewhere inside one ask call.                               *)
(***************************************************************************)
Workers == {"w1", "w2"}

\* filters=None, the default of ask and search
NoFilters == "None"

\* query_filter=None
NoQdrantFilter == "None"

NoRequest == [query |-> <<>>, limit |-> 0, stream |-> FALSE, use_hybrid |-> FALSE,
              use_reranking |-> FALSE, use_cache |-> FALSE, filters |-> NoFilters]

IdleThread ==
    [pc |-> "idle", req |-> NoRequest, key_present |-> FALSE,
     searched |-> FALSE, nhits |-> 0, index_errors |-> 0,
     query_filter |-> NoQdrantFilter, results |-> <<>>,
     answer |-> "none", llm_calls |-> 0,
     caller |-> "none", day |-> 0, reg |-> 0, cnt |-> 0,
     in_tok |-> 0, out_tok |-> 0,
     checked |-> FALSE, is_allowed |-> FALSE,
     call_day |-> 0, deny_due |-> FALSE, allow_due |-> FALSE,
     oldest |-> NoKey, response |-> NoResponse]

NoProvider == [fragments |-> <<>>, fail_at |-> 0 - 1, refuses |-> FALSE]

StreamIdle == provider = NoProvider /\ gen_state = "none" /\ received = <<>>

\* every collection of the vector index answers and holds nothing
IndexIdle ==
    index = [c \in {"legal_contracts", "legal_cases"} |-> [ok |-> TRUE, hits |-> <<>>]]

CiteIdle == cite_text = <<>> /\ cite_calls = <<>>

\* check_cost_limit was not called
NoResult == [is_allowed |-> TRUE, message |-> "none"]

LimitIdle == limit_result = NoResult

\* the store history, switched off
NoHistory == [on |-> FALSE, keys |-> <<>>]

\* the cache as __init__ sizes it (lines 95-97), its history not kept
CacheIdle == cache_max_size = CacheMaxSize /\ store_log = NoHistory

\* no context was assembled
Unbuilt == [built |-> FALSE, entries |-> <<>>]

ContextIdle == context = <<>> /\ context_text = Unbuilt

AuxIdle == StreamIdle /\ IndexIdle /\ CiteIdle /\ LimitIdle /\ CacheIdle /\ ContextIdle

EngineIdle ==
    /\ today = 1
    /\ tracker = NewTracker(1)
    /\ llm = "configured"
    /\ query_cache = <<>>
    /\ analytics = 0
    /\ asks = 0
    /\ th = [t \in Workers |-> IdleThread]
    /\ passed = [inp |-> 0, out |-> 0, calls |-> 0]
    /\ ceiling_day = 0

-----------------------------------------------------------------------------
(***************************************************************************)
(* SpecFusion: hybrid_search and rerank applied to every bounded input.    *)
(***************************************************************************)
\* BM25Okapi on an empty corpus is the library's business: it may return
\* no scores or raise while averaging the document lengths
BM25LibraryOutcomes(docs) ==
    IF docs = <<>> THEN {"returned", "ZeroDivisionError"} ELSE {"returned"}

KeyIdle ==
    /\ query_a = <<>> /\ query_b = <<>> /\ inner_ws = FALSE
    /\ key_a = NoKey /\ key_b = NoKey

InitFusion ==
    /\ semantic_results \in CandidateLists
    /\ fphase = "input"
    /\ alpha = 0 /\ top_k = 0 /\ use_reranking = FALSE
    /\ outcome = "none"
    /\ fused = <<>> /\ documents = <<>> /\ reranked = <<>>
    /\ KeyIdle
    /\ EngineIdle
    /\ AuxIdle

HybridSearchCall ==
    /\ fphase = "input"
    /\ \E a \in AlphaVals, k \in 1..MaxTopK, lib \in BM25LibraryOutcomes(semantic_results) :
        \E ord \in BM25Orders(semantic_results) :
        \E ids \in Perms(all_doc_ids(semantic_results, bm25_search(semantic_results, ord, 2 * k))) :
            LET r == IF lib = "returned"
                     THEN hybrid_search(semantic_results, ord, ids, a, k)
                     ELSE [outcome |-> lib, results |-> <<>>]
            IN  /\ alpha' = a
                /\ top_k' = k
                /\ outcome' = r.outcome
                /\ fused' = r.results
                /\ semantic_results' = IF lib = "returned"
                                       THEN InputAfterHybrid(semantic_results, ord, ids, a, k)
                                       ELSE semantic_results
    /\ fphase' = "fused"
    /\ UNCHANGED <<use_reranking, documents, reranked, keyVars, engineVars, auxVars>>

\* rerank on the raw semantic hits (LegalRAGEngine.search with use_hybrid
\* False) or on the list fused with alpha = 0.7 (search with use_hybrid True)
RerankArgument == IF fphase = "input" THEN semantic_results ELSE fused

RerankCall ==
    /\ \/ fphase = "input"
       \/ fphase = "fused" /\ outcome = "returned" /\ alpha = SearchAlpha
    /\ \E enabled \in BOOLEAN, k \in 0..MaxTopK :
        \E scores \in [1..Len(RerankArgument) -> IF enabled THEN RerankVals ELSE {0}] :
            /\ use_reranking' = enabled
            /\ top_k' = k
            /\ reranked' = rerank(enabled, RerankArgument, scores, k)
            /\ documents' = InputAfterRerank(enabled, RerankArgument, scores, k)
    /\ fphase' = "reranked"
    /\ UNCHANGED <<semantic_results, alpha, outcome, fused, keyVars, engineVars, auxVars>>

NextFusion == HybridSearchCall \/ RerankCall

SpecFusion == InitFusion /\ [][NextFusion]_vars

-----------------------------------------------------------------------------
(***************************************************************************)
(* SpecKey: a first call computes the key of query_a; query_b starts as    *)
(* query_a and is edited one character at a time (letter case, whitespace) *)
(* before a second call, otherwise identical, computes its key.            *)
(***************************************************************************)
QueryStrings == UNION {[1..n -> Chars] : n \in 0..MaxQueryLen}
KeyParams == {<<"both", 5, TRUE, TRUE>>, <<"cases", 10, TRUE, FALSE>>}

FusionIdle ==
    /\ semantic_results = <<>> /\ fphase = "input"
    /\ alpha = 0 /\ top_k = 0 /\ use_reranking = FALSE /\ outcome = "none"
    /\ fused = <<>> /\ documents = <<>> /\ reranked = <<>>

InitKey ==
    /\ query_a \in QueryStrings
    /\ query_b = query_a
    /\ inner_ws = FALSE
    /\ key_a = NoKey /\ key_b = NoKey
    /\ FusionIdle
    /\ EngineIdle
    /\ AuxIdle

FirstKeyCall ==
    /\ key_a = NoKey
    /\ \E p \in KeyParams : key_a' = create_cache_key(query_a, p[1], p[2], p[3], p[4])
    /\ UNCHANGED <<query_a, query_b, inner_ws, key_b, fusionVars, engineVars, auxVars>>

AllSpaces(q) == \A i \in 1..Len(q) : IsSpace(q[i])
\* position i of q (a character, or the gap before it) lies in the leading
\* or the trailing run of whitespace
OuterAt(q, i) == AllSpaces(SubSeq(q, 1, i - 1)) \/ AllSpaces(SubSeq(q, i, Len(q)))
OuterCharAt(q, i) == AllSpaces(SubSeq(q, 1, i)) \/ AllSpaces(SubSeq(q, i, Len(q)))

CanEdit == key_a # NoKey /\ key_b = NoKey

FlipCase ==
    /\ CanEdit
    /\ \E i \in 1..Len(query_b) :
        /\ ~IsSpace(query_b[i])
        /\ query_b' = [query_b EXCEPT ![i] = IF query_b[i] = "a" THEN "A" ELSE "a"]
    /\ UNCHANGED <<query_a, inner_ws, key_a, key_b, fusionVars, engineVars, auxVars>>

InsertSpace ==
    /\ CanEdit
    /\ Len(query_b) <= MaxQueryLen
    /\ \E i \in 1..(Len(query_b) + 1) :
        /\ query_b' = SubSeq(query_b, 1, i - 1) \o <<" ">> \o SubSeq(query_b, i, Len(query_b))
        /\ inner_ws' = (inner_ws \/ ~OuterAt(query_b, i))
    /\ UNCHANGED <<query_a, key_a, key_b, fusionVars, engineVars, auxVars>>

RemoveSpace ==
    /\ CanEdit
    /\ \E i \in 1..Len(query_b) :
        /\ IsSpace(query_b[i])
        /\ query_b' = SubSeq(query_b, 1, i - 1) \o SubSeq(query_b, i + 1, Len(query_b))
        /\ inner_ws' = (inner_ws \/ ~OuterCharAt(query_b, i))
    /\ UNCHANGED <<query_a, key_a, key_b, fusionVars, engineVars, auxVars>>

SecondKeyCall ==
    /\ CanEdit
    /\ key_b' = create_cache_key(query_b, key_a.collection, key_a.limit,
                                  key_a.use_hybrid, key_a.use_reranking)
    /\ UNCHANGED <<query_a, query_b, inner_ws, key_a, fusionVars, engineVars, auxVars>>

NextKey == FirstKeyCall \/ FlipCase \/ InsertSpace \/ RemoveSpace \/ SecondKeyCall

SpecKey == InitKey /\ [][NextKey]_vars

\* C7 as stated: two queries that differ only in letter case or whitespace,
\* otherwise identical, map to the same cache key.
C7_SameKeyAnyWhitespace ==
    key_b # NoKey => key_b = key_a

\* C7 as amended: two queries that differ only in letter case or in leading
\* or trailing whitespace, otherwise identical, map to the same cache key.
C7_SameKeyCaseAndOuterWhitespace ==
    (key_b # NoKey /\ ~inner_ws) => key_b = key_a

\* C7 witness: the second query differs from the first in case and in outer
\* whitespace, and both keys were computed.
C7_Witness ==
    /\ key_b # NoKey /\ ~inner_ws
    /\ Len(query_b) > Len(query_a)
    /\ \E i \in 1..Len(query_a) : query_a[i] = "A"
    /\ \A i \in 1..Len(query_b) : query_b[i] # "A"
    /\ IsSpace(query_b[1])

-----------------------------------------------------------------------------
(***************************************************************************)
(* Claims about hybrid_search and rerank (checked under SpecFusion).       *)
(***************************************************************************)
HybridCalled == outcome # "none"
HybridReturned == outcome = "returned"
AllZeroSemantic == \A i \in 1..Len(semantic_results) : semantic_results[i].score[1] = 0
AllZeroBM25 == \A i \in 1..Len(semantic_results) : semantic_results[i].text = 0
SortedDescBy(s, field) ==
    \A i, j \in 1..Len(s) : i < j => RatLeq(s[j][field], s[i][field])

\* C1: hybrid_search returns a list and raises nothing for every non-empty
\* candidate set whose semantic scores are all zero, and for every non-empty
\* candidate set whose BM25 scores are all zero.
C1_NoRaiseOnAllZero ==
    (HybridCalled /\ semantic_results # <<>> /\ (AllZeroSemantic \/ AllZeroBM25))
        => HybridReturned

\* C2: no chunk_id appears twice in the list hybrid_search returns.
C2_NoDuplicateIds ==
    HybridReturned =>
        \A i, j \in 1..Len(fused) : fused[i].chunk_id = fused[j].chunk_id => i = j

\* C2 witness: two candidates with the same chunk_id went in (each is in the
\* semantic results and in the BM25 results) and one entry came out.
C2_Witness ==
    /\ HybridReturned
    /\ Len(semantic_results) = 2
    /\ semantic_results[1].chunk_id # NoId
    /\ semantic_results[1].chunk_id = semantic_results[2].chunk_id
    /\ Len(fused) = 1
    /\ top_k = 2

\* C3: with alpha = 1.0 hybrid_search returns the candidates in descending
\* order of semantic score, and with alpha = 0.0 in descending order of BM25
\* score, on every non-empty input.
C3_AlphaExtremesOrder ==
    (HybridCalled /\ semantic_results # <<>>) =>
        /\ alpha = AlphaDen => (HybridReturned /\ SortedDescBy(fused, "semantic_score"))
        /\ alpha = 0 => (HybridReturned /\ SortedDescBy(fused, "bm25_score"))

\* C4: for alpha in [0, 1] and non-negative scores, every hybrid_score
\* hybrid_search returns, and the score it overwrites, lies in [0, 1].
C4_ScoresInUnitInterval ==
    HybridReturned =>
        \A i \in 1..Len(fused) :
            /\ IsSet(fused[i].hybrid_score)
            /\ RatLeq(Rat(0), fused[i].hybrid_score)
            /\ RatLeq(fused[i].hybrid_score, Rat(1))
            /\ fused[i].score = fused[i].hybrid_score

\* C4 witness: a fused list of two candidates, one scored 1 and one strictly
\* between 0 and 1, from raw semantic scores above 1.
C4_Witness ==
    /\ HybridReturned
    /\ alpha = SearchAlpha
    /\ Len(fused) = 2
    /\ fused[1].hybrid_score = Rat(1)
    /\ RatLess(Rat(0), fused[2].hybrid_score)
    /\ RatLess(fused[2].hybrid_score, Rat(1))
    /\ fused[1].semantic_score = Rat(2)

\* C5: with reranking disabled rerank returns its argument unchanged: the
\* same candidates in the same order, no score added or overwritten.
C5_DisabledRerankIsIdentity ==
    (fphase = "reranked" /\ ~use_reranking) => reranked = documents

\* C5 witness: a disabled rerank of two candidates with top_k = 1.
C5_Witness ==
    /\ fphase = "reranked" /\ ~use_reranking
    /\ Len(documents) = 2 /\ top_k = 1
    /\ documents[1].score # documents[2].score

-----------------------------------------------------------------------------
(***************************************************************************)
(* Spec: worker threads call ask on one engine.  Each action is one step   *)
(* of one thread with at most one access to shared state (the tracker's    *)
(* attributes, the cache dict, the clock): CPython may switch threads      *)
(* between any two of them, and `x += n' on an attribute is a load         *)
(* followed by a store.                                                    *)
(***************************************************************************)
Queries == {<<"a">>, <<" ", "A">>, <<"a", "a">>}

\* the requests one caller makes in turn: use_cache is left at its default
AskRequests ==
    {[query |-> q, limit |-> 1, stream |-> FALSE, use_hybrid |-> TRUE,
      use_reranking |-> TRUE, use_cache |-> TRUE, filters |-> NoFilters] : q \in Queries}
    \cup
    {[query |-> <<"a">>, limit |-> 1, stream |-> s, use_hybrid |-> FALSE,
      use_reranking |-> FALSE, use_cache |-> TRUE, filters |-> NoFilters] : s \in BOOLEAN}

\* the requests of concurrent callers that bypass the cache
UncachedRequests ==
    {[query |-> <<"a">>, limit |-> 1, stream |-> s, use_hybrid |-> TRUE,
      use_reranking |-> FALSE, use_cache |-> FALSE, filters |-> NoFilters] : s \in BOOLEAN}

\* collections_to_search for collection_type 'both' (lines 99-102, 149-150)
Collections == <<"legal_contracts", "legal_cases">>

\* what the index returns for a collection: nothing or one hit; the hit of
\* the contracts shares words with the query, the hit of the cases shares
\* none (raw BM25 score 0)
IndexAnswers(c) ==
    IF c = "legal_contracts" THEN {<<>>, <<Candidate(1, 2, 2)>>}
    ELSE {<<>>, <<Candidate(2, 2, 0)>>}

\* qdrant_client.search on a collection raises (the collection is
\* unreachable) or returns its hits
IndexOutcomes(c) ==
    {[ok |-> FALSE, hits |-> <<>>]} \cup {[ok |-> TRUE, hits |-> h] : h \in IndexAnswers(c)}

CollectionSet == {Collections[i] : i \in 1..Len(Collections)}

IndexStates ==
    {x \in [CollectionSet -> UNION {IndexOutcomes(c) : c \in CollectionSet}] :
        \A c \in CollectionSet : x[c] \in IndexOutcomes(c)}

\* the filters argument: None, an empty dict, a dict that names a court
FilterVals == {NoFilters, "empty", "court"}

\* mutant of build_qdrant_filter: the conditions are built from the dict
build_qdrant_filter_Active(filters) == filters

\* _build_qdrant_filter (lines 216-232): returns None, the code that builds
\* conditions is commented out
build_qdrant_filter(filters) == NoQdrantFilter

\* qdrant_filter = self._build_qdrant_filter(filters) if filters else None
\* (line 157): None and the empty dict are falsy
QdrantFilter(filters) ==
    IF filters \in {NoFilters, "empty"} THEN NoQdrantFilter
    ELSE build_qdrant_filter(filters)

\* qdrant_client.search(collection_name, ..., query_filter) (lines 165-170):
\* a filter on the court lets through hits of the cases only
qdrant_search(c, query_filter) ==
    IF ~index[c].ok \/ query_filter = NoQdrantFilter \/ c = "legal_cases"
    THEN index[c]
    ELSE [ok |-> TRUE, hits |-> <<>>]

\* the outcomes of the calls of qdrant_client.search, in the order of
\* collections_to_search (line 160)
SearchOutcomes(filters) ==
    [i \in 1..Len(Collections) |-> qdrant_search(Collections[i], QdrantFilter(filters))]

IndexErrors(outs) == Cardinality({i \in 1..Len(outs) : ~outs[i].ok})

RECURSIVE Collect_Aborting(_)
RECURSIVE Collect(_)
\* mutant of Collect: the first unreachable collection aborts the search
Collect_Aborting(outs) ==
    IF IndexErrors(outs) > 0 THEN [outcome |-> "ConnectionError", results |-> <<>>]
    ELSE [outcome |-> "returned",
          results |-> IF outs = <<>> THEN <<>>
                      ELSE outs[1].hits \o Collect_Aborting(Tail(outs)).results]

\* the loop over the collections (lines 160-188): the hits of a collection
\* are appended, an exception is caught and the loop goes on
Collect(outs) ==
    [outcome |-> "returned",
     results |-> IF outs = <<>> THEN <<>>
                 ELSE (IF outs[1].ok THEN outs[1].hits ELSE <<>>)
                      \o Collect(Tail(outs)).results]

\* usage_metadata of a completed generation: (prompt_token_count,
\* candidates_token_count); <<0, 0>> also stands for no metadata
Usages == {<<0, 0>>, <<1000, 500>>, <<1000, 17000000>>}

CacheKeyOf(r) == create_cache_key(r.query, "both", r.limit, r.use_hybrid, r.use_reranking)

InTrackUsage(t) == th[t].caller = "track"

\* ask is called with one of the requests R (lines 403-440)
AskUpTo(t, R, n) ==
    /\ th[t].pc = "idle"
    /\ asks < n
    /\ asks' = asks + 1
    /\ \E r \in R :
        th' = [th EXCEPT ![t] = [IdleThread EXCEPT
                  !.pc = "search", !.req = r,
                  !.key_present = r.use_cache /\ CacheKeyOf(r) \in CacheKeys(query_cache)]]
    /\ UNCHANGED <<today, tracker, llm, query_cache, analytics, passed, ceiling_day,
                   fusionVars, keyVars, auxVars>>

\* self.search(...) and the `if not results' branch (lines 441-456)
Search(t) ==
    /\ th[t].pc = "search"
    /\ LET me == th[t] IN
       LET outs == SearchOutcomes(me.req.filters)
           got  == Collect(outs)
           hits == got.results
       IN
       \E ord \in BM25Orders(hits), scores \in [1..Len(hits) -> RerankVals] :
       \E ids \in Perms(all_doc_ids(hits, bm25_search(hits, ord, 4 * me.req.limit))) :
          LET r == IF got.outcome # "returned" THEN got
                   ELSE search(hits, me.req.limit, me.req.use_hybrid,
                               me.req.use_reranking, ord, ids, scores)
              found == [me EXCEPT !.searched = TRUE, !.nhits = Len(hits),
                                  !.index_errors = IndexErrors(outs),
                                  !.query_filter = QdrantFilter(me.req.filters),
                                  !.results = r.results]
          IN  IF r.outcome # "returned"
              THEN /\ th' = [th EXCEPT ![t] = [found EXCEPT !.pc = "raised"]]
                   /\ UNCHANGED analytics
              ELSE IF NoResults(r.results)
              THEN /\ th' = [th EXCEPT ![t] = [found EXCEPT !.pc = "return",
                                                  !.response = NoResultsResponse]]
                   /\ analytics' = analytics + 1
              ELSE /\ th' = [th EXCEPT ![t] = [found EXCEPT !.pc = "generate"]]
                   /\ UNCHANGED analytics
    /\ UNCHANGED <<today, tracker, llm, query_cache, asks, passed, ceiling_day,
                   fusionVars, keyVars, auxVars>>

\* generate_answer up to the call of check_cost_limit (lines 290-332)
Generate(t) ==
    /\ th[t].pc = "generate"
    /\ th' = [th EXCEPT ![t] =
                IF llm = "none"
                THEN [@ EXCEPT !.answer = "not_configured", !.pc = "respond"]
                ELSE [@ EXCEPT !.caller = "check", !.pc = "reset_check"]]
    /\ UNCHANGED <<today, tracker, llm, query_cache, analytics, asks, passed, ceiling_day,
                   fusionVars, keyVars, auxVars>>

AfterReset(me) == IF me.caller = "check" THEN "ccl_load_in" ELSE "tu_load"

\* _check_reset_daily: today = datetime.now().date() and the comparison
\* with self.last_reset_date (lines 59-60).  The clock only moves forward,
\* so reading it and comparing are taken as one step.
ResetCheck(t) ==
    /\ th[t].pc = "reset_check"
    /\ LET me == th[t] IN
       th' = [th EXCEPT ![t] =
                [me EXCEPT !.day = IF today > tracker.last_reset_date THEN today ELSE 0,
                           !.cnt = 1,
                           !.pc = IF today > tracker.last_reset_date
                                  THEN "reset_store" ELSE AfterReset(me),
                           !.call_day = IF me.caller = "check" THEN today ELSE @,
                           !.deny_due = IF me.caller = "check"
                                        THEN ceiling_day = today ELSE @,
                           !.allow_due = IF me.caller = "check"
                                         THEN today > tracker.last_reset_date ELSE @]]
    /\ UNCHANGED <<today, tracker, llm, query_cache, analytics, asks, passed, ceiling_day,
                   fusionVars, keyVars, auxVars>>

\* _check_reset_daily: one of the four assignments (lines 65-68)
ResetStore(t) ==
    /\ th[t].pc = "reset_store"
    /\ LET me == th[t]
           f  == ResetFields[me.cnt]
       IN  /\ tracker' = [tracker EXCEPT ![f] = IF f = "last_reset_date" THEN me.day ELSE 0]
           /\ th' = [th EXCEPT ![t] =
                       IF me.cnt = Len(ResetFields)
                       THEN [me EXCEPT !.cnt = 1, !.day = 0, !.pc = AfterReset(me)]
                       ELSE [me EXCEPT !.cnt = me.cnt + 1]]
    /\ ceiling_day' = NoteCeiling(tracker', ceiling_day)
    /\ UNCHANGED <<today, llm, query_cache, analytics, asks, passed, fusionVars, keyVars, auxVars>>

\* check_cost_limit -> get_daily_cost: self.daily_input_tokens is read (line 111)
CclLoadIn(t) ==
    /\ th[t].pc = "ccl_load_in"
    /\ th' = [th EXCEPT ![t] = [@ EXCEPT !.reg = tracker.daily_input_tokens,
                                         !.pc = "ccl_load_out"]]
    /\ UNCHANGED <<today, tracker, llm, query_cache, analytics, asks, passed, ceiling_day,
                   fusionVars, keyVars, auxVars>>

\* mutant of AfterCheck: the verdict of check_cost_limit is not acted on
AfterCheck_Ignored(is_allowed) == "llm"

\* generate_answer: `if not is_allowed: return <message>' (lines 334-340),
\* else on to the provider call
AfterCheck(is_allowed) == IF is_allowed THEN "llm" ELSE "respond"

\* get_daily_cost: self.daily_output_tokens is read (line 112); check_cost_limit
\* decides (lines 132-149) and generate_answer branches on it (lines 334-340)
CclLoadOut(t) ==
    /\ th[t].pc = "ccl_load_out"
    /\ LET d == check_cost_limit(th[t].reg, tracker.daily_output_tokens)
       IN  th' = [th EXCEPT ![t] =
                    [@ EXCEPT !.checked = TRUE, !.is_allowed = d.is_allowed, !.reg = 0,
                              !.caller = "none",
                              !.answer = IF d.is_allowed THEN @ ELSE "limit_message",
                              !.pc = AfterCheck(d.is_allowed)]]
    /\ UNCHANGED <<today, tracker, llm, query_cache, analytics, asks, passed, ceiling_day,
                   fusionVars, keyVars, auxVars>>

\* the caller has seen what check_cost_limit returned: its record of the
\* call is dropped
Checked(me) ==
    [me EXCEPT !.checked = FALSE, !.is_allowed = FALSE,
               !.call_day = 0, !.deny_due = FALSE, !.allow_due = FALSE]

\* mutant of OnProviderError: the exception of the provider leaves ask
OnProviderError_Raises(me) == [me EXCEPT !.pc = "raised"]

\* generate_answer: `except Exception' returns the fallback text (lines
\* 373-388)
OnProviderError(me) == [me EXCEPT !.answer = "fallback", !.pc = "respond"]

\* self.llm.generate_content(...) and what follows it in generate_answer
\* (lines 347-388): the provider raises, or a stream is handed back, or the
\* answer comes with its usage metadata and track_usage is entered
LlmCall(t) ==
    /\ th[t].pc = "llm"
    /\ LET me == [Checked(th[t]) EXCEPT !.llm_calls = @ + 1] IN
       \/ /\ th' = [th EXCEPT ![t] = OnProviderError(me)]
          /\ UNCHANGED passed
       \/ /\ me.req.stream
          /\ th' = [th EXCEPT ![t] = [me EXCEPT !.answer = "stream", !.pc = "respond"]]
          /\ UNCHANGED passed
       \/ /\ ~me.req.stream
          /\ \E u \in Usages :
                IF u[1] > 0 \/ u[2] > 0
                THEN /\ th' = [th EXCEPT ![t] =
                                 [me EXCEPT !.in_tok = u[1], !.out_tok = u[2],
                                            !.caller = "track", !.pc = "reset_check"]]
                     /\ passed' = [inp |-> passed.inp + u[1], out |-> passed.out + u[2],
                                   calls |-> passed.calls + 1]
                ELSE /\ th' = [th EXCEPT ![t] = [me EXCEPT !.answer = "generated",
                                                            !.pc = "respond"]]
                     /\ UNCHANGED passed
    /\ UNCHANGED <<today, tracker, llm, query_cache, analytics, asks, ceiling_day,
                   fusionVars, keyVars, auxVars>>

\* track_usage: the load of one `self.<counter> += n' (lines 87-94)
TuLoad(t) ==
    /\ th[t].pc = "tu_load"
    /\ th' = [th EXCEPT ![t] = [@ EXCEPT !.reg = tracker[Counters[th[t].cnt]],
                                         !.pc = "tu_store"]]
    /\ UNCHANGED <<today, tracker, llm, query_cache, analytics, asks, passed, ceiling_day,
                   fusionVars, keyVars, auxVars>>

\* track_usage: the store of one `self.<counter> += n'; after the sixth,
\* generate_answer returns the answer (line 371)
TuStore(t) ==
    /\ th[t].pc = "tu_store"
    /\ LET me == th[t]
           c  == Counters[me.cnt]
       IN  /\ tracker' = [tracker EXCEPT ![c] = me.reg + Increment(c, me.in_tok, me.out_tok)]
           /\ th' = [th EXCEPT ![t] =
                       IF me.cnt = Len(Counters)
                       THEN [me EXCEPT !.reg = 0, !.cnt = 0, !.caller = "none",
                                       !.answer = "generated", !.pc = "respond"]
                       ELSE [me EXCEPT !.reg = 0, !.cnt = me.cnt + 1, !.pc = "tu_load"]]
    /\ ceiling_day' = NoteCeiling(tracker', ceiling_day)
    /\ UNCHANGED <<today, llm, query_cache, analytics, asks, passed, fusionVars, keyVars, auxVars>>

\* mutant of Cacheable: a streamed response is stored too
Cacheable_Streams(r) == r.use_cache

\* if use_cache and not stream (line 519)
Cacheable(r) == r.use_cache /\ ~r.stream

\* ask builds the response and records analytics (lines 466-519)
Respond(t) ==
    /\ th[t].pc = "respond"
    /\ LET me == Checked(th[t]) IN
       /\ th' = [th EXCEPT ![t] =
                   [me EXCEPT !.response = Response(me.answer, me.results),
                              !.pc = IF Cacheable(me.req)
                                     THEN "cache_len" ELSE "return"]]
       /\ analytics' = IF me.req.stream THEN analytics ELSE analytics + 1
    /\ UNCHANGED <<today, tracker, llm, query_cache, asks, passed, ceiling_day,
                   fusionVars, keyVars, auxVars>>

\* if len(self._query_cache) >= self._cache_max_size (line 521)
CacheLen(t) ==
    /\ th[t].pc = "cache_len"
    /\ th' = [th EXCEPT ![t] = [@ EXCEPT !.pc = IF Len(query_cache) >= cache_max_size
                                                THEN "cache_oldest" ELSE "cache_store"]]
    /\ UNCHANGED <<today, tracker, llm, query_cache, analytics, asks, passed, ceiling_day,
                   fusionVars, keyVars, auxVars>>

\* oldest_key = next(iter(self._query_cache)) (line 523); StopIteration on
\* an empty dict
CacheOldest(t) ==
    /\ th[t].pc = "cache_oldest"
    /\ th' = [th EXCEPT ![t] =
                IF query_cache = <<>> THEN [@ EXCEPT !.pc = "raised"]
                ELSE [@ EXCEPT !.oldest = query_cache[1].key, !.pc = "cache_pop"]]
    /\ UNCHANGED <<today, tracker, llm, query_cache, analytics, asks, passed, ceiling_day,
                   fusionVars, keyVars, auxVars>>

\* self._query_cache.pop(oldest_key) (line 524); KeyError if it is gone
CachePop(t) ==
    /\ th[t].pc = "cache_pop"
    /\ IF th[t].oldest \in CacheKeys(query_cache)
       THEN /\ query_cache' = CachePopKey(query_cache, th[t].oldest)
            /\ th' = [th EXCEPT ![t] = [@ EXCEPT !.pc = "cache_store"]]
       ELSE /\ th' = [th EXCEPT ![t] = [@ EXCEPT !.pc = "raised"]]
            /\ UNCHANGED query_cache
    /\ UNCHANGED <<today, tracker, llm, analytics, asks, passed, ceiling_day,
                   fusionVars, keyVars, auxVars>>

\* self._query_cache[cache_key] = response (line 525)
CacheStore(t) ==
    /\ th[t].pc = "cache_store"
    /\ query_cache' = CacheSet(query_cache, CacheKeyOf(th[t].req), th[t].response)
    /\ th' = [th EXCEPT ![t] = [@ EXCEPT !.pc = "return"]]
    /\ store_log' = IF store_log.on
                    THEN [store_log EXCEPT !.keys = Append(@, CacheKeyOf(th[t].req))]
                    ELSE store_log
    /\ UNCHANGED <<today, tracker, llm, analytics, asks, passed, ceiling_day,
                   fusionVars, keyVars, streamVars, indexVars, citeVars, limitVars,
                   cache_max_size, contextVars>>

\* ask returns its response, or an exception leaves it; the worker is free
Return(t) ==
    /\ th[t].pc \in {"return", "raised"}
    /\ th' = [th EXCEPT ![t] = IdleThread]
    /\ UNCHANGED <<today, tracker, llm, query_cache, analytics, asks, passed, ceiling_day,
                   fusionVars, keyVars, auxVars>>

\* midnight: datetime.now().date() moves to the next day
Tick ==
    /\ today < MaxDay
    /\ today' = today + 1
    /\ UNCHANGED <<tracker, llm, query_cache, analytics, asks, th, passed, ceiling_day,
                   fusionVars, keyVars, auxVars>>

\* ask is called with one of the requests R, MaxAsks times at most
AskFrom(t, R) == AskUpTo(t, R, MaxAsks)

\* the engine after construction, over an index in any condition
InitEngine ==
    /\ FusionIdle
    /\ KeyIdle
    /\ StreamIdle
    /\ CiteIdle
    /\ LimitIdle /\ CacheIdle /\ ContextIdle
    /\ index \in IndexStates
    /\ today = 1
    /\ tracker = NewTracker(1)
    /\ llm \in {"configured", "none"}
    /\ query_cache = <<>>
    /\ analytics = 0
    /\ asks = 0
    /\ th = [t \in Workers |-> IdleThread]
    /\ passed = [inp |-> 0, out |-> 0, calls |-> 0]
    /\ ceiling_day = 0

\* every collection of the vector index answers
IndexUp == \A c \in CollectionSet : index[c].ok

\* at most one collection holds a hit for the queries
SparseIndex == \E c \in CollectionSet : index[c].hits = <<>>

Init == InitEngine /\ IndexUp /\ SparseIndex

\* one caller at a time, every kind of request
AskCall(t) == AskFrom(t, AskRequests)

Step(t) ==
    \/ AskCall(t) \/ Search(t) \/ Generate(t)
    \/ ResetCheck(t) \/ ResetStore(t)
    \/ CclLoadIn(t) \/ CclLoadOut(t) \/ LlmCall(t)
    \/ TuLoad(t) \/ TuStore(t)
    \/ Respond(t)
    \/ CacheLen(t) \/ CacheOldest(t) \/ CachePop(t) \/ CacheStore(t)
    \/ Return(t)

Next == Step("w1") \/ Tick

Spec == Init /\ [][Next]_vars

(***************************************************************************)
(* SpecLedger: the worker threads of routes.py's executor run ask          *)
(* concurrently against the one tracker.                                   *)
(***************************************************************************)
\* the index holds contracts only
ContractsOnly == index["legal_cases"].hits = <<>>

InitLedger == Init /\ llm = "configured" /\ ContractsOnly

AskUncached(t) == AskFrom(t, UncachedRequests)

StepLedger(t) ==
    \/ AskUncached(t) \/ Search(t) \/ Generate(t)
    \/ ResetCheck(t) \/ ResetStore(t)
    \/ CclLoadIn(t) \/ CclLoadOut(t) \/ LlmCall(t)
    \/ TuLoad(t) \/ TuStore(t)
    \/ Respond(t)
    \/ Return(t)

NextLedger == (\E t \in Workers : StepLedger(t)) \/ Tick

SpecLedger == InitLedger /\ [][NextLedger]_vars

-----------------------------------------------------------------------------
(***************************************************************************)
(* Claims about ask, the cache and the usage tracker.                      *)
(***************************************************************************)
\* C6: when vector search yields no hit in any searched collection, ask
\* returns the terminal no-results response (the fixed answer, empty
\* sources) and the generative model is never invoked for that query
C6_NoHitsNoGeneration ==
    \A t \in Workers :
        th[t].searched /\ th[t].nhits = 0 =>
            /\ th[t].pc = "return"
            /\ th[t].response = NoResultsResponse
            /\ th[t].llm_calls = 0
            /\ th[t].answer = "none"

C6_Witness ==
    /\ llm = "configured"
    /\ th["w1"].searched /\ th["w1"].nhits = 0
    /\ th["w1"].pc = "return" /\ th["w1"].response = NoResultsResponse

\* C8: an ask call with caching enabled whose normalized key is already in
\* the cache returns the stored response without running retrieval or
\* invoking the generative model
C8_CachedKeySkipsPipeline ==
    \A t \in Workers :
        th[t].key_present => ~th[t].searched /\ th[t].llm_calls = 0

\* C9: once the ledger's daily cost has reached the ceiling, every
\* check_cost_limit call made during that day (entered and completed in it)
\* reports not-allowed; a call entered after the date moved past the last
\* reset date reports allowed (unless the new day's own cost has reached
\* the ceiling)
C9_CeilingDeniesUntilRollover ==
    \A t \in Workers :
        th[t].checked =>
            /\ th[t].deny_due /\ today = th[t].call_day => ~th[t].is_allowed
            /\ th[t].allow_due /\ ceiling_day # th[t].call_day => th[t].is_allowed

\* C10: within one day, once every track_usage call has completed, each
\* daily and lifetime token counter equals the sum of the token counts
\* passed and each request counter the number of calls
C10_NoLostUpdate ==
    (today = 1 /\ \A t \in Workers : ~InTrackUsage(t)) =>
        /\ tracker.daily_input_tokens = passed.inp
        /\ tracker.total_input_tokens = passed.inp
        /\ tracker.daily_output_tokens = passed.out
        /\ tracker.total_output_tokens = passed.out
        /\ tracker.daily_requests = passed.calls
        /\ tracker.total_requests = passed.calls

-----------------------------------------------------------------------------
(***************************************************************************)
(* SpecCache: the executor's worker threads run ask concurrently on an     *)
(* engine without a configured model (generate_answer returns at once), so *)
(* that the threads meet only in the query cache.                          *)
(***************************************************************************)
InitCache == Init /\ llm = "none"

StepCache(t) ==
    \/ AskCall(t) \/ Search(t) \/ Generate(t)
    \/ Respond(t)
    \/ CacheLen(t) \/ CacheOldest(t) \/ CachePop(t) \/ CacheStore(t)
    \/ Return(t)

NextCache == \E t \in Workers : StepCache(t)

SpecCache == InitCache /\ [][NextCache]_vars

\* an exception left ask from its eviction step (lines 523-524)
EvictionFailed(t) == th[t].pc = "raised" /\ th[t].response # NoResponse

\* C11: the cache's check-capacity / evict / insert sequence is mutually
\* exclusive across concurrent queries: under any interleaving no eviction
\* step fails on an entry another query already removed
C11_EvictionNeverFails ==
    \A t \in Workers : ~EvictionFailed(t)

-----------------------------------------------------------------------------
(***************************************************************************)
(* SpecStream: generate_answer(stream=True) on a configured engine whose   *)
(* budget check passed, and the consumer of what it returns.  The provider *)
(* (Gemini, external) holds some fragments; it may refuse the call, or     *)
(* fail when asked for the fragment after the first fail_at ones           *)
(* (fail_at = -1: it never fails).                                         *)
(***************************************************************************)
MaxFragments == 3   \* longest provider stream

Fragments == {"f1", "f2"}

ErrorMarker == "error_marker"

Providers ==
    {[fragments |-> f, fail_at |-> k, refuses |-> r] :
        f \in UNION {[1..n -> Fragments] : n \in 0..MaxFragments},
        k \in (0 - 1)..MaxFragments, r \in BOOLEAN}

InitStream ==
    /\ FusionIdle /\ KeyIdle /\ EngineIdle /\ IndexIdle /\ CiteIdle /\ LimitIdle /\ CacheIdle /\ ContextIdle
    /\ provider \in {p \in Providers : p.fail_at <= Len(p.fragments)}
    /\ gen_state = "none"
    /\ received = <<>>

\* response = self.llm.generate_content(prompt, stream=True) and
\* return (chunk.text for chunk in response) (lines 347-352); an exception
\* of the call itself is caught at line 373 and the fallback text returned
StreamCall ==
    /\ gen_state = "none"
    /\ gen_state' = IF provider.refuses THEN "fallback" ELSE "open"
    /\ UNCHANGED <<provider, received, fusionVars, keyVars, engineVars, indexVars, citeVars, limitVars, cacheVars, contextVars>>

\* the consumer asks the generator expression for its next item: the
\* provider's next chunk is fetched and its text handed on; an exception of
\* the provider passes through the generator expression to the consumer;
\* the end of the provider's stream ends the generator
StreamNext ==
    /\ gen_state = "open"
    /\ LET k == Len(received) IN
       IF k = provider.fail_at
       THEN gen_state' = "raised" /\ UNCHANGED received
       ELSE IF k < Len(provider.fragments)
       THEN received' = Append(received, provider.fragments[k + 1]) /\ UNCHANGED gen_state
       ELSE gen_state' = "exhausted" /\ UNCHANGED received
    /\ UNCHANGED <<provider, fusionVars, keyVars, engineVars, indexVars, citeVars, limitVars, cacheVars, contextVars>>

NextStream == StreamCall \/ StreamNext

SpecStream == InitStream /\ [][NextStream]_vars

\* C12: when the provider fails after k fragments, the consumer of the
\* stream receives those k fragments in order, then an explicit error
\* marker, and the iteration ends without an exception
C12_FragmentsThenErrorMarker ==
    (provider.fail_at >= 0 /\ gen_state \in {"exhausted", "raised"}) =>
        /\ gen_state = "exhausted"
        /\ received = SubSeq(provider.fragments, 1, provider.fail_at) \o <<ErrorMarker>>

-----------------------------------------------------------------------------
\* C13: when check_cost_limit reports the daily budget exhausted, ask does
\* not invoke the generative model and returns normally, with the
\* budget-exceeded message as the answer together with the retrieved sources
C13_BudgetExhaustedSkipsGeneration ==
    \A t \in Workers :
        th[t].answer = "limit_message" =>
            /\ th[t].llm_calls = 0
            /\ th[t].pc \in {"respond", "cache_len", "cache_oldest", "cache_pop",
                             "cache_store", "return"}
            /\ th[t].results # <<>>
            /\ th[t].pc # "respond" =>
                   th[t].response = Response("limit_message", th[t].results)

C13_Witness ==
    /\ th["w1"].pc = "return" /\ th["w1"].answer = "limit_message"
    /\ th["w1"].response.answer = "limit_message"
    /\ th["w1"].response.sources # <<>>
    /\ ceiling_day = today

-----------------------------------------------------------------------------
\* a provider call of a non-streaming ask has been made and no answer or
\* usage came back from it
ProviderFailed(me) ==
    /\ me.llm_calls > 0 /\ ~me.req.stream
    /\ me.answer # "generated" /\ me.caller # "track"

\* C14: when the generative model call raises in non-streaming mode, ask
\* does not raise: it returns a fallback answer in a response that still
\* holds the retrieved sources, and no step of the failed call changes the
\* usage ledger
C14_ProviderErrorFallsBack ==
    /\ [](\A t \in Workers :
            ProviderFailed(th[t]) =>
                /\ th[t].pc # "raised"
                /\ th[t].answer = "fallback"
                /\ th[t].results # <<>>
                /\ th[t].pc # "respond" =>
                       th[t].response = Response("fallback", th[t].results))
    /\ [][\A t \in Workers : ProviderFailed(th'[t]) => tracker' = tracker]_vars

C14_Witness ==
    /\ ProviderFailed(th["w1"])
    /\ th["w1"].pc = "return"
    /\ th["w1"].response.answer = "fallback"
    /\ th["w1"].response.sources # <<>>
    /\ tracker.total_requests > 0

-----------------------------------------------------------------------------
(***************************************************************************)
(* SpecIndex: one caller asks uncached questions while collections of the  *)
(* vector index come and go between the requests.                          *)
(***************************************************************************)
IndexRequests ==
    {[query |-> <<"a">>, limit |-> 1, stream |-> FALSE, use_hybrid |-> h,
      use_reranking |-> FALSE, use_cache |-> FALSE, filters |-> f] :
        h \in BOOLEAN, f \in FilterVals}

AskIndex(t) == AskFrom(t, IndexRequests)

\* between two requests the vector index loses or regains a collection, or
\* its contents change
Outage ==
    /\ \A t \in Workers : th[t].pc = "idle"
    /\ index' \in IndexStates \ {index}
    /\ UNCHANGED <<fusionVars, keyVars, engineVars, streamVars, citeVars, limitVars, cacheVars, contextVars>>

StepIndex(t) ==
    \/ AskIndex(t) \/ Search(t) \/ Generate(t)
    \/ ResetCheck(t) \/ ResetStore(t)
    \/ CclLoadIn(t) \/ CclLoadOut(t) \/ LlmCall(t)
    \/ TuLoad(t) \/ TuStore(t)
    \/ Respond(t)
    \/ Return(t)

NextIndex == StepIndex("w1") \/ Tick \/ Outage

SpecIndex == InitEngine /\ [][NextIndex]_vars

\* the hits the reachable collections hold
RECURSIVE ReachableHits(_)
ReachableHits(i) ==
    IF i = 0 THEN <<>>
    ELSE ReachableHits(i - 1)
         \o (IF index[Collections[i]].ok THEN index[Collections[i]].hits ELSE <<>>)

\* ask left search with an exception
RaisedInSearch(me) == me.searched /\ me.pc = "raised" /\ me.answer = "none"

\* C15: when the vector index is unreachable for a collection, the failure
\* is caught inside search and never aborts the query: the hits of the
\* other collection are the candidates (the query ends in an exception only
\* where hybrid_search raises on those candidates), and when every
\* collection fails ask returns the no-results response without a model call
C15_IndexFailureCaughtLocally ==
    \A t \in Workers :
        (th[t].searched /\ ~IndexUp) =>
            /\ th[t].index_errors > 0
            /\ th[t].nhits = Len(ReachableHits(Len(Collections)))
            /\ RaisedInSearch(th[t]) => (th[t].req.use_hybrid /\ th[t].nhits > 0)
            /\ (th[t].nhits > 0 /\ ~RaisedInSearch(th[t])) => th[t].results # <<>>
            /\ (\A c \in CollectionSet : ~index[c].ok) =>
                   /\ th[t].pc = "return"
                   /\ th[t].response = NoResultsResponse
                   /\ th[t].llm_calls = 0

C15_Witness ==
    /\ ~index["legal_contracts"].ok /\ index["legal_cases"].ok
    /\ th["w1"].searched /\ th["w1"].index_errors = 1
    /\ th["w1"].pc = "return"
    /\ th["w1"].response.sources = th["w1"].results
    /\ th["w1"].results # <<>>
    /\ th["w1"].results[1].chunk_id = 2

-----------------------------------------------------------------------------
\* what search can return for a request when the index is asked without a
\* filter, over every order the ties can be broken in
PlainOutcomes(req) ==
    LET hits == ReachableHits(Len(Collections))
    IN  UNION {{search(hits, req.limit, req.use_hybrid, req.use_reranking, ord, ids, scores) :
                    ids \in Perms(all_doc_ids(hits, bm25_search(hits, ord, 4 * req.limit))),
                    scores \in [1..Len(hits) -> RerankVals]} :
               ord \in BM25Orders(hits)}

\* C20: the structured filters are inert: whatever the filters argument,
\* search passes no filter to the vector index, and what it returns is what
\* the run without filters returns
C20_FiltersInert ==
    \A t \in Workers :
        th[t].searched =>
            /\ th[t].query_filter = NoQdrantFilter
            /\ th[t].nhits = Len(ReachableHits(Len(Collections)))
            /\ [outcome |-> IF RaisedInSearch(th[t]) THEN "ZeroDivisionError" ELSE "returned",
                results |-> th[t].results] \in PlainOutcomes(th[t].req)

C20_Witness ==
    /\ th["w1"].searched /\ th["w1"].req.filters = "court"
    /\ index["legal_contracts"].ok /\ index["legal_contracts"].hits # <<>>
    /\ th["w1"].pc = "return"
    /\ th["w1"].response.sources # <<>>
    /\ th["w1"].response.sources[1].chunk_id = 1

-----------------------------------------------------------------------------
(***************************************************************************)
(* SpecBM25: bm25_search applied to every bounded document list.  The      *)
(* text of a candidate stands for its raw BM25 score against the query.    *)
(***************************************************************************)
InitBM25 ==
    /\ documents \in CandidateLists
    /\ semantic_results = <<>> /\ fphase = "input"
    /\ alpha = 0 /\ top_k = 0 /\ use_reranking = FALSE /\ outcome = "none"
    /\ fused = <<>> /\ reranked = <<>>
    /\ KeyIdle
    /\ EngineIdle
    /\ AuxIdle

\* bm25_search(query, documents, top_k) (lines 56-95): the index is built by
\* BM25Okapi from the texts, there is no branch for an empty list
Bm25SearchCall ==
    /\ fphase = "input"
    /\ \E k \in 1..MaxTopK, lib \in BM25LibraryOutcomes(documents) :
        \E ord \in BM25Orders(documents) :
            /\ top_k' = k
            /\ outcome' = lib
            /\ fused' = IF lib = "returned" THEN bm25_search(documents, ord, k) ELSE <<>>
            /\ documents' = IF lib = "returned" THEN InputAfterBm25(documents, ord, k)
                            ELSE documents
    /\ fphase' = "bm25"
    /\ UNCHANGED <<semantic_results, alpha, use_reranking, reranked,
                   keyVars, engineVars, auxVars>>

NextBM25 == Bm25SearchCall

SpecBM25 == InitBM25 /\ [][NextBM25]_vars

\* C16: bm25_search called with an empty document list returns an empty
\* result and raises no exception, for every query and top_k
C16_EmptyDocumentsEmptyResult ==
    (fphase = "bm25" /\ documents = <<>>) =>
        (outcome = "returned" /\ fused = <<>>)

-----------------------------------------------------------------------------
(***************************************************************************)
(* CitationExtractor (citation_utils.py).  A text is a sequence of tokens  *)
(* separated by single blanks; a matched citation is kept as the string    *)
(* the regular expression matched: its tokens with the blanks between.     *)
(***************************************************************************)
MaxTokens == 5      \* longest text given to one call of extract_citations
MaxSeqTokens == 3   \* longest text in a sequence of calls
MaxCalls == 3       \* calls of extract_citations on one extractor

Numbers == {"1", "22"}

\* tokens made of letters and dots, first a letter
Words == {"U.S.", "F.", "Supp.", "S.Ct."}

Series == {"2d"}

CiteTokens == Numbers \cup Words \cup Series

Blank == " "

\* len(token)
TokLen(tok) ==
    CASE tok = "1" -> 1
      [] tok \in {"22", "F.", "2d"} -> 2
      [] tok = "U.S." -> 4
      [] OTHER -> 5

\* PATTERNS, in the order of the dict (lines 13-19)
PatternOrder == <<"us_reporter", "federal_reporter", "supreme_court",
                  "federal_supplement", "state_reporter">>

\* what a pattern admits between the volume and the page, over CiteTokens:
\*   U\.S\.(?:\sApp\.)?        F\.\s*(?:2d|3d|4th)?      S\.\s*Ct\.
\*   F\.\s*Supp\.\s*(?:2d|3d)?     [A-Z][a-z\.]*\s*(?:2d|3d)?  (IGNORECASE)
Middles(type) ==
    CASE type = "us_reporter"        -> {<<"U.S.">>}
      [] type = "federal_reporter"   -> {<<"F.">>, <<"F.", "2d">>}
      [] type = "supreme_court"      -> {<<"S.Ct.">>}
      [] type = "federal_supplement" -> {<<"F.", "Supp.">>, <<"F.", "Supp.", "2d">>}
      [] type = "state_reporter"     ->
            {<<w>> : w \in Words} \cup {<<w, "2d">> : w \in Words}

\* COURTLISTENER_TYPES (lines 22-27)
COURTLISTENER_TYPES ==
    [type \in {"us_reporter", "federal_reporter", "supreme_court", "federal_supplement"} |->
        CASE type = "us_reporter"      -> "us"
          [] type = "federal_reporter" -> "f"
          [] type = "supreme_court"    -> "sct"
          [] OTHER                     -> "f-supp"]

\* the number of tokens pattern.match takes at token i of the text (0: none):
\* \b\d+ \s+ middle \s+ \d+\b
MatchLen(type, text, i) ==
    LET lens == {n \in 3..5 :
                    /\ i + n - 1 <= Len(text)
                    /\ text[i] \in Numbers
                    /\ text[i + n - 1] \in Numbers
                    /\ SubSeq(text, i + 1, i + n - 2) \in Middles(type)}
    IN  IF lens = {} THEN 0 ELSE CHOOSE n \in lens : \A m \in lens : m <= n

\* pattern.finditer(text) from token i on: leftmost matches, the scan
\* resumes where the previous match ended
RECURSIVE finditer(_, _, _)
finditer(type, text, i) ==
    IF i > Len(text) THEN <<>>
    ELSE LET n == MatchLen(type, text, i)
         IN  IF n > 0 THEN <<[first |-> i, ntok |-> n]>> \o finditer(type, text, i + n)
             ELSE finditer(type, text, i + 1)

\* match.start(): the offset of token i in the text
RECURSIVE Offset(_, _)
Offset(text, i) ==
    IF i <= 1 THEN 0 ELSE Offset(text, i - 1) + TokLen(text[i - 1]) + 1

\* match.group(0): the tokens with the blanks between them
RECURSIVE Joined(_)
Joined(toks) ==
    IF Len(toks) <= 1 THEN toks
    ELSE <<toks[1], Blank>> \o Joined(Tail(toks))

\* re.split(r'\s+', citation_text.strip())
Split(citation_text) == SelectSeq(citation_text, LAMBDA x : x # Blank)

NoLink == [code |-> "none", volume |-> "none", page |-> "none"]

\* mutant of create_courtlistener_link: the page is the third token
create_courtlistener_link_ThirdToken(citation_text, citation_type) ==
    LET parts == Split(citation_text)
    IN  IF Len(parts) < 3 THEN NoLink
        ELSE IF citation_type \notin DOMAIN COURTLISTENER_TYPES THEN NoLink
        ELSE [code |-> COURTLISTENER_TYPES[citation_type],
              volume |-> parts[1], page |-> parts[3]]

\* _create_courtlistener_link (lines 74-111):
\* https://www.courtlistener.com/c/{cl_type}/{volume}/{page}/
create_courtlistener_link(citation_text, citation_type) ==
    LET parts == Split(citation_text)
    IN  IF Len(parts) < 3 THEN NoLink
        ELSE IF citation_type \notin DOMAIN COURTLISTENER_TYPES THEN NoLink
        ELSE [code |-> COURTLISTENER_TYPES[citation_type],
              volume |-> parts[1], page |-> parts[Len(parts)]]

\* mutant of AlreadySeen: no match is taken for a duplicate
AlreadySeen_Never(citation_text, seen) == FALSE

\* if citation_text in seen (line 55)
AlreadySeen(citation_text, seen) == citation_text \in seen

\* the loop over the matches of one pattern (lines 51-67)
RECURSIVE ScanMatches(_, _, _, _)
ScanMatches(type, text, matches, acc) ==
    IF matches = <<>> THEN acc
    ELSE LET m == Head(matches)
             citation_text == Joined(SubSeq(text, m.first, m.first + m.ntok - 1))
         IN  IF AlreadySeen(citation_text, acc.seen)
             THEN ScanMatches(type, text, Tail(matches), acc)
             ELSE ScanMatches(type, text, Tail(matches),
                      [seen |-> acc.seen \cup {citation_text},
                       citations |-> Append(acc.citations,
                           [type |-> type, text |-> citation_text,
                            link |-> create_courtlistener_link(citation_text, type),
                            position |-> Offset(text, m.first)])])

\* the loop over compiled_patterns (line 49), from the k-th pattern on
RECURSIVE ScanPatterns(_, _, _)
ScanPatterns(text, k, acc) ==
    IF k > Len(PatternOrder) THEN acc
    ELSE ScanPatterns(text, k + 1,
             ScanMatches(PatternOrder[k], text, finditer(PatternOrder[k], text, 1), acc))

\* citations.sort(key=lambda x: x['position']): stable, ascending
RECURSIVE SortByPosition(_)
SortByPosition(s) ==
    IF Len(s) <= 1 THEN s
    ELSE LET init == SortByPosition(SubSeq(s, 1, Len(s) - 1))
             x    == s[Len(s)]
             k    == Cardinality({i \in 1..Len(init) : init[i].position <= x.position})
         IN  SubSeq(init, 1, k) \o <<x>> \o SubSeq(init, k + 1, Len(init))

\* mutant of SeenAtEntry: the set of seen texts lives on the extractor
SeenAtEntry_Shared(calls) ==
    UNION {{calls[i].result[j].text : j \in 1..Len(calls[i].result)} : i \in 1..Len(calls)}

\* seen = set() (line 47): a local of the call, whatever was called before
SeenAtEntry(calls) == {}

\* extract_citations (lines 36-72), called after the calls `calls'
extract_citations(text, calls) ==
    SortByPosition(ScanPatterns(text, 1,
        [seen |-> SeenAtEntry(calls), citations |-> <<>>]).citations)

(***************************************************************************)
(* SpecCite: extract_citations applied once to every bounded text.         *)
(***************************************************************************)
CiteTexts == UNION {[1..n -> CiteTokens] : n \in 0..MaxTokens}

InitCite ==
    /\ cite_text \in CiteTexts
    /\ cite_calls = <<>>
    /\ FusionIdle /\ KeyIdle /\ EngineIdle /\ StreamIdle /\ IndexIdle /\ LimitIdle /\ CacheIdle /\ ContextIdle

\* extractor.extract_citations(text)
ExtractCall(text) ==
    /\ Len(cite_calls) < MaxCalls
    /\ cite_calls' = Append(cite_calls,
           [text |-> text, result |-> extract_citations(text, cite_calls)])
    /\ UNCHANGED <<cite_text, fusionVars, keyVars, engineVars, streamVars, indexVars, limitVars, cacheVars, contextVars>>

ExtractOnce == cite_calls = <<>> /\ ExtractCall(cite_text)

NextCite == ExtractOnce

SpecCite == InitCite /\ [][NextCite]_vars

(***************************************************************************)
(* SpecCiteSeq: one extractor is called several times, on the text under   *)
(* study and on another text, in any order.                                *)
(***************************************************************************)
SeqTexts == UNION {[1..n -> CiteTokens] : n \in 0..MaxSeqTokens}

OtherText == <<"1", "F.", "22", "2d">>

InitCiteSeq ==
    /\ cite_text \in SeqTexts
    /\ cite_calls = <<>>
    /\ FusionIdle /\ KeyIdle /\ EngineIdle /\ StreamIdle /\ IndexIdle /\ LimitIdle /\ CacheIdle /\ ContextIdle

ExtractAgain == ExtractCall(cite_text)

ExtractOther == ExtractCall(OtherText)

NextCiteSeq == ExtractAgain \/ ExtractOther

SpecCiteSeq == InitCiteSeq /\ [][NextCiteSeq]_vars

\* C17: extract_citations is idempotent and stateless: on one extractor,
\* in any sequence with calls on other texts, every call on the same text
\* yields the same citations
C17_ExtractionIdempotent ==
    \A i, j \in 1..Len(cite_calls) :
        cite_calls[i].text = cite_calls[j].text =>
            cite_calls[i].result = cite_calls[j].result

C17_Witness ==
    /\ Len(cite_calls) = 3
    /\ cite_calls[1].text = cite_text /\ cite_calls[1].result # <<>>
    /\ cite_calls[2].text = OtherText /\ cite_text # OtherText
    /\ cite_calls[3] = cite_calls[1]
    /\ cite_calls[2].result[1].text = cite_calls[1].result[1].text

-----------------------------------------------------------------------------
KnownSchemes == {"us_reporter", "federal_reporter", "supreme_court", "federal_supplement"}

ReporterCode(type) ==
    CASE type = "us_reporter"      -> "us"
      [] type = "federal_reporter" -> "f"
      [] type = "supreme_court"    -> "sct"
      [] type = "federal_supplement" -> "f-supp"

\* the link {base}/{reporter-code}/{volume}/{page}/ for the tokens of a match
SchemeLink(type, toks) ==
    [code |-> ReporterCode(type), volume |-> toks[1], page |-> toks[Len(toks)]]

\* C18: every match of a reporter type with a known scheme gets the link
\* {base}/{reporter-code}/{volume}/{page}/ built from the first and the last
\* whitespace token of the match, and the other types get no link;
\* '123 U.S. 456' yields type us_reporter with /us/123/456/
C18_LinkFromFirstAndLastToken ==
    \A c \in 1..Len(cite_calls) :
        LET text   == cite_calls[c].text
            result == cite_calls[c].result
        IN  /\ \A type \in KnownSchemes :
                LET matches == finditer(type, text, 1)
                IN  \A m \in 1..Len(matches) :
                        LET toks == SubSeq(text, matches[m].first,
                                           matches[m].first + matches[m].ntok - 1)
                        IN  \E k \in 1..Len(result) :
                                /\ result[k].type = type
                                /\ SelectSeq(result[k].text, LAMBDA x : x \in CiteTokens) = toks
                                /\ result[k].link = SchemeLink(type, toks)
            /\ \A k \in 1..Len(result) :
                IF result[k].type \in KnownSchemes
                THEN result[k].link = SchemeLink(result[k].type,
                                                 SelectSeq(result[k].text, LAMBDA x : x \in CiteTokens))
                ELSE result[k].link = NoLink

C18_Witness ==
    /\ Len(cite_calls) = 1
    /\ cite_calls[1].text = <<"1", "U.S.", "22", "F.", "2d">>
    /\ Len(cite_calls[1].result) = 1
    /\ cite_calls[1].result[1].type = "us_reporter"
    /\ cite_calls[1].result[1].link = [code |-> "us", volume |-> "1", page |-> "22"]

-----------------------------------------------------------------------------
\* C19: the list extract_citations returns holds no two entries with the
\* same matched text, whatever patterns matched them, and is ordered by
\* non-decreasing position in the text
C19_DistinctTextsInPositionOrder ==
    \A c \in 1..Len(cite_calls) :
        LET result == cite_calls[c].result
        IN  \A i, j \in 1..Len(result) :
                i < j => /\ result[i].text # result[j].text
                         /\ result[i].position <= result[j].position

C19_Witness ==
    /\ Len(cite_calls) = 1
    /\ cite_calls[1].text = <<"1", "F.", "22", "U.S.", "1">>
    /\ Len(cite_calls[1].result) = 2
    /\ cite_calls[1].result[1].type = "federal_reporter"
    /\ cite_calls[1].result[1].position = 0
    /\ cite_calls[1].result[2].type = "us_reporter"
    /\ cite_calls[1].result[2].position = 5

-----------------------------------------------------------------------------
\* C21: fusion and reranking are pure: hybrid_search (with the bm25_search
\* it runs) and rerank in enabled mode leave the caller's list and every
\* candidate in it as they were: no key added, no score overwritten, no
\* reordering
C21_InputsUnchanged ==
    [][/\ (fphase = "input" /\ fphase' = "fused") => semantic_results' = semantic_results
       /\ (fphase' = "reranked" /\ fphase # "reranked") => documents' = RerankArgument]_vars

C21_Witness ==
    /\ fphase = "reranked" /\ use_reranking /\ outcome = "returned"
    /\ Len(semantic_results) = 2 /\ fused # semantic_results
    /\ documents = fused /\ Len(documents) = 2 /\ Len(reranked) = 2
    /\ reranked[1].chunk_id = documents[2].chunk_id
    /\ \A i \in 1..Len(semantic_results) : semantic_results[i].hybrid_score = Absent
    /\ \A i \in 1..Len(documents) : documents[i].rerank_score = Absent

-----------------------------------------------------------------------------
\* the entry of the output made from the i-th candidate of the input
MadeFrom(out, cand) ==
    /\ out.chunk_id = cand.chunk_id
    /\ out.text = cand.text
    /\ out.semantic_score = cand.score

\* C28: hybrid_search loses no candidate: when top_k is at least the number
\* of semantic candidates, every candidate of semantic_results appears
\* exactly once in the output, candidates without a chunk_id included
C28_NoCandidateLost ==
    (HybridReturned /\ top_k >= Len(semantic_results)) =>
        /\ Len(fused) = Len(semantic_results)
        /\ \A i \in 1..Len(semantic_results) :
               \E j \in 1..Len(fused) : MadeFrom(fused[j], semantic_results[i])

-----------------------------------------------------------------------------
(***************************************************************************)
(* SpecLimit: one call of check_cost_limit on a tracker whose daily token  *)
(* counts stand anywhere around the two thresholds.                        *)
(***************************************************************************)
\* daily input / output token counts around 80% of the ceiling and the ceiling
LimitInputs  == {0, 1, 1000, 53333333, 53333334, 66666666, 66666667}
LimitOutputs == {0, 1, 500, 13333333, 13333334, 16666666, 16666667, 17000000}

\* the tracker with the day's counts as given
TrackerAt(day, inp, out) ==
    [NewTracker(day) EXCEPT !.daily_input_tokens = inp, !.daily_output_tokens = out,
                            !.daily_requests = 1,
                            !.total_input_tokens = inp, !.total_output_tokens = out,
                            !.total_requests = 1]

\* _check_reset_daily, run by one thread alone
check_reset_daily(tr, day) ==
    IF day > tr.last_reset_date
    THEN [tr EXCEPT !.daily_input_tokens = 0, !.daily_output_tokens = 0,
                    !.daily_requests = 0, !.last_reset_date = day]
    ELSE tr

InitLimit ==
    /\ FusionIdle /\ KeyIdle /\ StreamIdle /\ IndexIdle /\ CiteIdle /\ LimitIdle /\ CacheIdle /\ ContextIdle
    /\ today \in 1..MaxDay
    /\ \E day \in 1..today, inp \in LimitInputs, out \in LimitOutputs :
          /\ get_daily_cost(inp, out) \div TokensPerMillion <= max_daily_cost + 10
          /\ tracker = TrackerAt(day, inp, out)
    /\ llm = "configured"
    /\ query_cache = <<>>
    /\ analytics = 0
    /\ asks = 0
    /\ th = [t \in Workers |-> IdleThread]
    /\ passed = [inp |-> 0, out |-> 0, calls |-> 0]
    /\ ceiling_day = 0

\* check_cost_limit(): the daily reset, then the three-way decision
CheckCostLimitCall ==
    /\ limit_result = NoResult
    /\ LET tr == check_reset_daily(tracker, today) IN
         /\ tracker' = tr
         /\ limit_result' = check_cost_limit(tr.daily_input_tokens, tr.daily_output_tokens)
    /\ UNCHANGED <<today, llm, query_cache, analytics, asks, th, passed, ceiling_day,
                   fusionVars, keyVars, streamVars, indexVars, citeVars, cacheVars,
                   contextVars>>

NextLimit == CheckCostLimitCall

SpecLimit == InitLimit /\ [][NextLimit]_vars

\* the day's cost the ledger holds, in fortieths of a dollar times a million
LedgerCost == get_daily_cost(tracker.daily_input_tokens, tracker.daily_output_tokens)

\* C22: check_cost_limit decides three ways on the day's cost: at or above the
\* ceiling the call is refused with a message; from 80% of the ceiling up to
\* the ceiling it is allowed with a non-empty warning; below 80% it is allowed
\* with an empty message
C22_ThreeWayDecision ==
    limit_result # NoResult =>
        /\ LedgerCost >= max_daily_cost * TokensPerMillion =>
               ~limit_result.is_allowed /\ limit_result.message # ""
        /\ (/\ LedgerCost < max_daily_cost * TokensPerMillion
            /\ 5 * LedgerCost >= 4 * max_daily_cost * TokensPerMillion) =>
               limit_result.is_allowed /\ limit_result.message # ""
        /\ 5 * LedgerCost < 4 * max_daily_cost * TokensPerMillion =>
               limit_result.is_allowed /\ limit_result.message = ""

\* a call that met a cost between the two thresholds and warned
C22_Witness ==
    /\ limit_result # NoResult
    /\ LedgerCost < max_daily_cost * TokensPerMillion
    /\ 5 * LedgerCost >= 4 * max_daily_cost * TokensPerMillion
    /\ limit_result.is_allowed
    /\ limit_result.message = "approaching"

-----------------------------------------------------------------------------
(***************************************************************************)
(* SpecLru: one caller asks cached queries in turn against an engine whose *)
(* cache holds LruMaxSize entries; the keys stored are recorded in order.  *)
(***************************************************************************)
LruMaxSize == 3     \* LegalRAGEngine._cache_max_size, scaled down from 100
LruAsks == 5        \* calls of ask in one behaviour

\* cached requests that differ in their limit, hence in their key
LruRequests ==
    {[query |-> <<"a">>, limit |-> l, stream |-> FALSE, use_hybrid |-> FALSE,
      use_reranking |-> FALSE, use_cache |-> TRUE, filters |-> NoFilters] :
        l \in 1..(LruMaxSize + 1)}

InitLru ==
    /\ FusionIdle /\ KeyIdle /\ StreamIdle /\ CiteIdle /\ LimitIdle /\ ContextIdle
    /\ index \in IndexStates
    /\ IndexUp /\ ContractsOnly
    /\ index["legal_contracts"].hits # <<>>
    /\ today = 1
    /\ tracker = NewTracker(1)
    /\ llm = "none"
    /\ query_cache = <<>>
    /\ analytics = 0
    /\ asks = 0
    /\ th = [t \in Workers |-> IdleThread]
    /\ passed = [inp |-> 0, out |-> 0, calls |-> 0]
    /\ ceiling_day = 0
    /\ cache_max_size = LruMaxSize
    /\ store_log = [on |-> TRUE, keys |-> <<>>]

AskLru(t) == AskUpTo(t, LruRequests, LruAsks)

StepLru(t) ==
    \/ AskLru(t) \/ Search(t) \/ Generate(t)
    \/ Respond(t)
    \/ CacheLen(t) \/ CacheOldest(t) \/ CachePop(t) \/ CacheStore(t)
    \/ Return(t)

NextLru == StepLru("w1")

SpecLru == InitLru /\ [][NextLru]_vars

\* this step removes an entry from the cache
Evicts == Len(query_cache') < Len(query_cache)

\* the position in the store history of the last store of key k (0: never)
LastUse(k) ==
    LET at == {i \in 1..Len(store_log.keys) : store_log.keys[i] = k}
    IN  IF at = {} THEN 0 ELSE CHOOSE i \in at : \A j \in at : j <= i

\* C23: when an insert finds the cache at capacity, the entry evicted is the
\* least recently used one, a use being the latest store of the key (the
\* engine's cache is never read, so it has no hits): every entry that stays
\* was stored later than the evicted one was last stored
C23_EvictsLeastRecentlyUsed ==
    [][Evicts =>
          \A gone \in CacheKeys(query_cache) \ CacheKeys(query_cache') :
              \A k \in CacheKeys(query_cache') : LastUse(gone) < LastUse(k)]_vars

\* C24: after any sequence of sequential asks the cache holds at most its
\* capacity, and an entry is evicted only when the insert would otherwise
\* exceed the capacity: the cache is full and the key being stored is not
\* in it
C24_EvictsOnlyToMakeRoom ==
    /\ [](Len(query_cache) <= cache_max_size)
    /\ [][Evicts =>
             \E t \in Workers :
                 /\ th[t].pc = "cache_pop"
                 /\ Len(query_cache) >= cache_max_size
                 /\ CacheKeyOf(th[t].req) \notin CacheKeys(query_cache)]_vars

-----------------------------------------------------------------------------
\* the usage of the current day as the ledger reports it once its daily
\* reset has run: nothing before the first call of a new day
DayTally(tr, day) ==
    IF day > tr.last_reset_date THEN <<0, 0, 0>>
    ELSE <<tr.daily_input_tokens, tr.daily_output_tokens, tr.daily_requests>>

\* worker t takes this step of an ask in streaming mode
StreamingStep(t) == th'[t] # th[t] /\ (th[t].req.stream \/ th'[t].req.stream)

-----------------------------------------------------------------------------
(***************************************************************************)
(* SpecContext: generate_answer's assembly of the prompt context (lines    *)
(* 292-314).  Strings are kept by their lengths; context_text is the       *)
(* sequence of the entries appended to it.                                 *)
(***************************************************************************)
MaxContext == 4     \* longest candidate list handed to generate_answer

ContextTopK == 3    \* top_k = min(3, len(context))
ChunkChars == 2000  \* text[:2000]
max_chars == 8000   \* max_chars = 8000
EntryOverhead == 15 \* len("\n[Source i: ]\n\n") for a one-digit i

\* candidates by the lengths of their text, of their full_text and of the
\* label picked from their metadata ("Unknown" has 7 characters)
Chunks ==
    {[text |-> t, full_text |-> 0, source |-> s] : t \in {8, 9, 2000, 2500}, s \in {7, 1970}}
    \cup {[text |-> 0, full_text |-> f, source |-> 7] : f \in {0, 2500}}
    \cup {[text |-> 8, full_text |-> 0, source |-> 6000]}

\* text = chunk.get('text', '') or chunk.get('full_text', '')
PassageLen(chunk) == IF chunk.text # 0 THEN chunk.text ELSE chunk.full_text

\* chunk_text = text[:2000] if len(text) > 2000 else text
chunk_text(chunk) == IF PassageLen(chunk) > ChunkChars THEN ChunkChars ELSE PassageLen(chunk)

\* chunk_entry = f"\n[Source {i+1}: {source}]\n{chunk_text}\n"
chunk_entry(i, chunk) ==
    [number |-> i, source |-> chunk.source, chunk_text |-> chunk_text(chunk)]

\* len(chunk_entry)
EntryLen(e) == EntryOverhead + e.source + e.chunk_text

\* len(context_text)
RECURSIVE ContextLen(_)
ContextLen(entries) ==
    IF entries = <<>> THEN 0 ELSE EntryLen(Head(entries)) + ContextLen(Tail(entries))

\* mutant of Fits: the budget is not looked at
Fits_Always(sofar, e) == TRUE

\* not (len(context_text) + len(chunk_entry) > max_chars)
Fits(sofar, e) == ~(ContextLen(sofar) + EntryLen(e) > max_chars)

\* the loop over context[:top_k], from candidate i on
RECURSIVE BuildContext(_, _, _)
BuildContext(ctx, i, sofar) ==
    IF i > Min2(ContextTopK, Len(ctx)) THEN sofar
    ELSE LET e == chunk_entry(i, ctx[i]) IN
         IF ~Fits(sofar, e) THEN sofar
         ELSE BuildContext(ctx, i + 1, Append(sofar, e))

InitContext ==
    /\ FusionIdle /\ KeyIdle /\ EngineIdle /\ StreamIdle /\ IndexIdle /\ CiteIdle
    /\ LimitIdle /\ CacheIdle
    /\ context \in UNION {[1..n -> Chunks] : n \in 0..MaxContext}
    /\ context_text = Unbuilt

\* generate_answer builds context_text
ContextCall ==
    /\ ~context_text.built
    /\ context_text' = [built |-> TRUE, entries |-> BuildContext(context, 1, <<>>)]
    /\ UNCHANGED <<context, fusionVars, keyVars, engineVars, streamVars, indexVars,
                   citeVars, limitVars, cacheVars>>

NextContext == ContextCall

SpecContext == InitContext /\ [][NextContext]_vars

-----------------------------------------------------------------------------
\* C27: whatever the use_hybrid and use_reranking flags, search returns at
\* most `limit' candidates: the list ask hands to generation and counts in
\* num_sources never exceeds the requested limit
C27_AtMostLimitCandidates ==
    \A t \in Workers :
        th[t].searched =>
            /\ Len(th[t].results) <= th[t].req.limit
            /\ th[t].response # NoResponse => th[t].response.num_sources <= th[t].req.limit

-----------------------------------------------------------------------------
\* C29: every response ask stores in the cache carries an answer the
\* generative model produced: the budget-exceeded message, the fallback
\* text of a provider error and the missing-credential placeholder are
\* never stored
C29_OnlyGeneratedAnswersCached ==
    \A i \in 1..Len(query_cache) : query_cache[i].response.answer = "generated"

-----------------------------------------------------------------------------
\* worker t invokes the generative model in this step, for a query that is
\* not streamed
Invokes(t) ==
    /\ th[t].pc = "llm"
    /\ ~th[t].req.stream
    /\ th'[t].llm_calls = th[t].llm_calls + 1

\* the ledger's recorded cost of the current day stands at or above the ceiling
CeilingStands ==
    /\ tracker.last_reset_date = today
    /\ LimitReached(tracker.daily_input_tokens, tracker.daily_output_tokens)

\* C30: under any interleaving of concurrent non-streaming queries on the
\* one ledger, the generative model is never invoked while the recorded
\* daily cost already stands at or above the ceiling: no other query's
\* usage recording comes between the budget check and the generation it
\* guards
C30_NoInvocationAtCeiling ==
    [][\A t \in Workers : Invokes(t) => ~CeilingStands]_vars

=============================================================================
